---- MODULE Spec2Model ----
(***************************************************************************)
(* Template matching and field extraction of the proposal-form backend:    *)
(* api/architects_extractor.py and api/extractors_router.py.               *)
(*                                                                         *)
(* A text is a sequence of tokens.  A token is a maximal lexical unit of   *)
(* the OCR transcript: one whitespace character (" " or "\n"), one of the  *)
(* separators ":" and "-", a keyword phrase of the form, a run of digits,  *)
(* or a value word.  The transcript is the concatenation of the spellings  *)
(* of its tokens, so two tokens with nothing between them are adjacent in  *)
(* the transcript ("Un" "qualified Staff" spells "Unqualified Staff").     *)
(* Scores are kept in tenths (0.7 is 7).                                   *)
(***************************************************************************)
EXTENDS Integers, Sequences, FiniteSets, TLC

VARIABLES
  registry,    \* EXTRACTORS: the registered extractors, in registration order
  route,       \* which /extract handler serves the request
  payload,     \* payload.ocr_text of the request being served
  pc,          \* where the handler is: "validate", "scan", "chosen", "done"
  text,        \* the handler's local text
  i,           \* choose_best_extractor: position of the for loop (from 1)
  best,        \* choose_best_extractor: best (position in registry, 0 for None)
  best_score,  \* choose_best_extractor: best_score
  extractor,   \* the handler's extractor (position in registry, 0 for None)
  calls,       \* the extractor methods invoked so far: <<method, position>>
  status,      \* HTTP status of the reply, 0 while there is none
  response,    \* the ExtractionResponse, None while there is none
  prev,        \* the previous request and its reply, None for the first request
  other,       \* the locals of a second request in flight, None without one
  call,        \* a direct call of a function of the module: its arguments
  result       \* the value that call returned

vars == <<registry, route, payload, pc, text, i, best, best_score, extractor,
          calls, status, response, prev, other, call, result>>

----------------------------------------------------------------------------
(* Bounds of the explored inputs *)

MaxLen == 3
MaxReg == 2
MaxPad == 1

----------------------------------------------------------------------------
(* Options: Python's None is the empty tuple, a value v is <<v>> *)

None == <<>>

Some(v) == <<v>>

IsNone(o) == o = <<>>

Get(map, key) == IF key \in DOMAIN map THEN map[key] ELSE None

Min(a, b) == IF a < b THEN a ELSE b

----------------------------------------------------------------------------
(* Tokens and the string primitives the code uses on them *)

SP == " "
NL == "\n"

Whitespace == {SP, NL}

PRIMARY == "professional indemnity insurance proposal form for architects"
ACTIVITIES == "breakdown of your activities and percentage of income generated for each discipline"
CONTRACTS == "breakdown of contract types described below and percentage of income generated"

(* str.lower(): the lower-case spelling of every token that has upper-case  *)
(* letters *)
LowerTable ==
  "Professional Indemnity Insurance Proposal Form for Architects" :> "professional indemnity insurance proposal form for architects"
  @@ "PROFESSIONAL INDEMNITY INSURANCE PROPOSAL FORM FOR ARCHITECTS" :> "professional indemnity insurance proposal form for architects"
  @@ "Professional Indemnity Insurance Proposal Form for Accountants" :> "professional indemnity insurance proposal form for accountants"
  @@ "Breakdown of your activities and percentage of income generated for each discipline" :> "breakdown of your activities and percentage of income generated for each discipline"
  @@ "Breakdown of contract types described below and percentage of income generated" :> "breakdown of contract types described below and percentage of income generated"
  @@ "Full trading names of all Firms" :> "full trading names of all firms"
  @@ "Name(s)" :> "name(s)"
  @@ "Date Established" :> "date established"
  @@ "2a) Website" :> "2a) website"
  @@ "2b) Email Address" :> "2b) email address"
  @@ "2c) Telephone Number" :> "2c) telephone number"
  @@ "Financial Year End" :> "financial year end"
  @@ "Total" :> "total"
  @@ "Number of Staff" :> "number of staff"
  @@ "Principals" :> "principals"
  @@ "Qualified Staff" :> "qualified staff"
  @@ "Un" :> "un"
  @@ "qualified Staff" :> "qualified staff"
  @@ "Others" :> "others"
  @@ "Current Professional Indemnity Policy" :> "current professional indemnity policy"
  @@ "Insurer" :> "insurer"
  @@ "INSURER" :> "insurer"
  @@ "Broker" :> "broker"
  @@ "Co" :> "co"
  @@ "Limit of Indemnity" :> "limit of indemnity"
  @@ "Excess" :> "excess"
  @@ "Premium" :> "premium"
  @@ "Renewal Date" :> "renewal date"
  @@ "Acme" :> "acme"
  @@ "Marsh" :> "marsh"
  @@ "Breakdown of turnover/fees" :> "breakdown of turnover/fees"
  @@ "UK" :> "uk"
  @@ "USA/Canada" :> "usa/canada"
  @@ "EU" :> "eu"
  @@ "Elsewhere" :> "elsewhere"
  @@ "Architectural Work" :> "architectural work"
  @@ "New Build" :> "new build"
  @@ "Civil Engineering" :> "civil engineering"
  @@ "Other" :> "other"
  @@ "Please describe" :> "please describe"
  @@ "Description of other work" :> "description of other work"
  @@ "Power Plants" :> "power plants"
  @@ "Has any claim been made or loss suffered" :> "has any claim been made or loss suffered"
  @@ "If YES, please provide details below" :> "if yes, please provide details below"
  @@ "Are you aware of any of the following?" :> "are you aware of any of the following?"
  @@ "Name of Principal Signing this form" :> "name of principal signing this form"
  @@ "DECLARATION" :> "declaration"

Lower(tok) == IF tok \in DOMAIN LowerTable THEN LowerTable[tok] ELSE tok

lower(s) == [k \in 1..Len(s) |-> Lower(s[k])]

(* needle in hay: substring search *)
In(needle, hay) ==
  \E p \in 0..(Len(hay) - Len(needle)) :
     \A k \in 1..Len(needle) : hay[p + k] = needle[k]

RECURSIVE LStrip(_)
LStrip(s) == IF s # <<>> /\ Head(s) \in Whitespace THEN LStrip(Tail(s)) ELSE s

RECURSIVE RStrip(_)
RStrip(s) ==
  IF s # <<>> /\ s[Len(s)] \in Whitespace THEN RStrip(SubSeq(s, 1, Len(s) - 1)) ELSE s

strip(s) == RStrip(LStrip(s))

RECURSIVE Concat(_)
Concat(ss) == IF ss = <<>> THEN <<>> ELSE Head(ss) \o Concat(Tail(ss))

----------------------------------------------------------------------------
(* Template selection *)

W_PRIMARY == 7
W_ACTIVITIES == 2
W_CONTRACTS == 1
SCORE_CAP == 10
THRESHOLD == 5

match_score_nolower(s) ==
  LET t == s
      s1 == IF In(<<PRIMARY>>, t) THEN W_PRIMARY ELSE 0
      s2 == s1 + (IF In(<<ACTIVITIES>>, t) THEN W_ACTIVITIES ELSE 0)
      s3 == s2 + (IF In(<<CONTRACTS>>, t) THEN W_CONTRACTS ELSE 0)
  IN  Min(s3, SCORE_CAP)

match_score_elif(s) ==
  LET t == lower(s)
  IN  IF In(<<PRIMARY>>, t) THEN W_PRIMARY
      ELSE IF In(<<ACTIVITIES>>, t) THEN W_ACTIVITIES
      ELSE IF In(<<CONTRACTS>>, t) THEN W_CONTRACTS
      ELSE 0

(* ArchitectsExtractor.match_score *)
match_score(s) ==
  LET t == lower(s)
      s1 == IF In(<<PRIMARY>>, t) THEN W_PRIMARY ELSE 0
      s2 == s1 + (IF In(<<ACTIVITIES>>, t) THEN W_ACTIVITIES ELSE 0)
      s3 == s2 + (IF In(<<CONTRACTS>>, t) THEN W_CONTRACTS ELSE 0)
  IN  Min(s3, SCORE_CAP)

----------------------------------------------------------------------------
(* Regular expressions over token sequences.  A pattern is a sequence of   *)
(* elements; every pattern of the code is compiled with re.IGNORECASE, so  *)
(* its literals are written case-folded and compared with Lower(token).    *)

L(t) == [k |-> "lit", t |-> t]

WS0 == [k |-> "ws*"]

WS1 == [k |-> "ws+"]

Lazy(g) == [k |-> "lazy", g |-> g]

Greedy(g) == [k |-> "greedy", g |-> g]

Skip == [k |-> "skip", g |-> ""]

Lazy0(g) == [k |-> "skip", g |-> g]

Num(g) == [k |-> "num", g |-> g]

Opt(p) == [k |-> "opt", p |-> p]

Alt(p, q) == [k |-> "alt", p |-> p, q |-> q]

Eof == [k |-> "eof"]

NoMatch == [ok |-> FALSE, caps |-> <<>>]

DigitChars == {"0", "1", "2", "3", "4", "5", "6", "7", "8", "9"}

(* tokens that are runs of digits *)
DigitTokens == {"3", "4", "5", "7", "12", "40", "100"}

RECURSIVE RunLen(_, _, _)
RunLen(txt, pos, class) ==
  IF pos <= Len(txt) /\ txt[pos] \in class THEN 1 + RunLen(txt, pos + 1, class) ELSE 0

RECURSIVE M(_, _, _, _), TryLens(_, _, _, _, _, _, _, _)
(* the rest of the pattern after a repetition that consumes n tokens, n    *)
(* running from its first choice to `last` in steps of `step`              *)
TryLens(rest, txt, pos, n, last, step, caps, g) ==
  LET c == IF g = "" THEN caps ELSE (g :> SubSeq(txt, pos, pos + n - 1)) @@ caps
      r == M(rest, txt, pos + n, c)
  IN  IF r.ok THEN r
      ELSE IF n = last THEN NoMatch
      ELSE TryLens(rest, txt, pos, n + step, last, step, caps, g)

(* backtracking match of pattern pat at position pos of txt *)
M(pat, txt, pos, caps) ==
  IF pat = <<>> THEN [ok |-> TRUE, caps |-> caps]
  ELSE
    LET e == Head(pat)
        rest == Tail(pat)
        left == Len(txt) - pos + 1
        ws == RunLen(txt, pos, Whitespace)
        ds == RunLen(txt, pos, DigitTokens)
    IN  CASE e.k = "lit" ->
               IF pos <= Len(txt) /\ Lower(txt[pos]) = e.t
               THEN M(rest, txt, pos + 1, caps) ELSE NoMatch
          [] e.k = "ws*" -> TryLens(rest, txt, pos, ws, 0, -1, caps, "")
          [] e.k = "ws+" ->
               IF ws = 0 THEN NoMatch ELSE TryLens(rest, txt, pos, ws, 1, -1, caps, "")
          [] e.k = "num" ->
               IF ds = 0 THEN NoMatch ELSE TryLens(rest, txt, pos, ds, 1, -1, caps, e.g)
          [] e.k = "lazy" ->
               IF left < 1 THEN NoMatch ELSE TryLens(rest, txt, pos, 1, left, 1, caps, e.g)
          [] e.k = "greedy" ->
               IF left < 1 THEN NoMatch ELSE TryLens(rest, txt, pos, left, 1, -1, caps, e.g)
          [] e.k = "skip" -> TryLens(rest, txt, pos, 0, left, 1, caps, e.g)
          [] e.k = "opt" ->
               LET r == M(e.p \o rest, txt, pos, caps)
               IN  IF r.ok THEN r ELSE M(rest, txt, pos, caps)
          [] e.k = "alt" ->
               LET r == M(e.p \o rest, txt, pos, caps)
               IN  IF r.ok THEN r ELSE M(e.q \o rest, txt, pos, caps)
          [] e.k = "eof" ->
               IF pos = Len(txt) + 1 \/ (pos = Len(txt) /\ txt[pos] = NL)
               THEN M(rest, txt, pos, caps) ELSE NoMatch

RECURSIVE SearchFrom(_, _, _)
SearchFrom(pat, txt, pos) ==
  IF pos > Len(txt) + 1 THEN NoMatch
  ELSE LET r == M(pat, txt, pos, <<>>)
       IN  IF r.ok THEN r ELSE SearchFrom(pat, txt, pos + 1)

(* re.search: the leftmost match *)
Search(pat, txt) == SearchFrom(pat, txt, 1)

(* m.group(g) if m else None *)
GroupOrNone(m, g) == IF m.ok THEN Some(m.caps[g]) ELSE None

(* m.group(g).strip() if m else None *)
StrippedGroupOrNone(m, g) == IF m.ok THEN Some(strip(m.caps[g])) ELSE None

----------------------------------------------------------------------------
(* Characters.  The normalisers and last_number work on characters, so each *)
(* token has its spelling; a run of characters that none of them tells      *)
(* apart (letters other than k and m, brackets, ...) is written "_".  "#"   *)
(* stands for the pound sign.                                               *)

POUND == "#"

CharsTable ==
  "Professional Indemnity Insurance Proposal Form for Architects" :> <<"_", " ", "_", "m", "_", " ", "_", " ", "_", " ", "_", "m", " ", "_", " ", "_">>
  @@ "PROFESSIONAL INDEMNITY INSURANCE PROPOSAL FORM FOR ARCHITECTS" :> <<"_", " ", "_", "M", "_", " ", "_", " ", "_", " ", "_", "M", " ", "_", " ", "_">>
  @@ "Professional Indemnity Insurance Proposal Form for Accountants" :> <<"_", " ", "_", "m", "_", " ", "_", " ", "_", " ", "_", "m", " ", "_", " ", "_">>
  @@ "Breakdown of your activities and percentage of income generated for each discipline" :> <<"_", "k", "_", " ", "_", " ", "_", " ", "_", " ", "_", " ", "_", " ", "_", " ", "_", "m", "_", " ", "_", " ", "_", " ", "_", " ", "_">>
  @@ "Breakdown of contract types described below and percentage of income generated" :> <<"_", "k", "_", " ", "_", " ", "_", " ", "_", " ", "_", " ", "_", " ", "_", " ", "_", " ", "_", " ", "_", "m", "_", " ", "_">>
  @@ "lorem" :> <<"_", "m">>
  @@ "Full trading names of all Firms" :> <<"_", " ", "_", " ", "_", "m", "_", " ", "_", " ", "_", " ", "_", "m", "_">>
  @@ "Name(s)" :> <<"_", "m", "_">>
  @@ "Date Established" :> <<"_", " ", "_">>
  @@ "2a) Website" :> <<"2", "_", " ", "_">>
  @@ "2b) Email Address" :> <<"2", "_", " ", "_", "m", "_", " ", "_">>
  @@ "2c) Telephone Number" :> <<"2", "_", " ", "_", " ", "_", "m", "_">>
  @@ "Financial Year End" :> <<"_", " ", "_", " ", "_">>
  @@ "Total" :> <<"_">>
  @@ "Number of Staff" :> <<"_", "m", "_", " ", "_", " ", "_">>
  @@ "Principals" :> <<"_">>
  @@ "Qualified Staff" :> <<"_", " ", "_">>
  @@ "Un" :> <<"_">>
  @@ "qualified Staff" :> <<"_", " ", "_">>
  @@ "Others" :> <<"_">>
  @@ "Current Professional Indemnity Policy" :> <<"_", " ", "_", " ", "_", "m", "_", " ", "_">>
  @@ "Insurer" :> <<"_">>
  @@ "INSURER" :> <<"_">>
  @@ "Broker" :> <<"_", "k", "_">>
  @@ "Co" :> <<"_">>
  @@ "Limit of Indemnity" :> <<"_", "m", "_", " ", "_", " ", "_", "m", "_">>
  @@ "Excess" :> <<"_">>
  @@ "Premium" :> <<"_", "m", "_", "m">>
  @@ "Renewal Date" :> <<"_", " ", "_">>
  @@ "Acme" :> <<"_", "m", "_">>
  @@ "Marsh" :> <<"M", "_">>
  @@ "#500,000" :> <<"#", "5", "0", "0", ",", "0", "0", "0">>
  @@ "#5,000" :> <<"#", "5", ",", "0", "0", "0">>
  @@ "#1,200" :> <<"#", "1", ",", "2", "0", "0">>
  @@ "01/06/2025" :> <<"0", "1", "/", "0", "6", "/", "2", "0", "2", "5">>
  @@ "01/06/25" :> <<"0", "1", "/", "0", "6", "/", "2", "5">>
  @@ "2025" :> <<"2", "0", "2", "5">>
  @@ "06" :> <<"0", "6">>
  @@ "01" :> <<"0", "1">>
  @@ "31/02/2025" :> <<"3", "1", "/", "0", "2", "/", "2", "0", "2", "5">>
  @@ "Breakdown of turnover/fees" :> <<"_", "k", "_", " ", "_", " ", "_", "/", "_">>
  @@ "UK" :> <<"_", "K">>
  @@ "USA/Canada" :> <<"_", "/", "_">>
  @@ "EU" :> <<"_">>
  @@ "Elsewhere" :> <<"_">>
  @@ "n/a" :> <<"_", "/", "_">>
  @@ "2k" :> <<"2", "k">>
  @@ "1.5m" :> <<"1", ".", "5", "m">>
  @@ "Architectural Work" :> <<"_", " ", "_", "k">>
  @@ "New Build" :> <<"_", " ", "_">>
  @@ "Civil Engineering" :> <<"_", " ", "_">>
  @@ "Other" :> <<"_">>
  @@ "Please describe" :> <<"_", " ", "_">>
  @@ "%" :> <<"_">>
  @@ "Description of other work" :> <<"_", " ", "_", " ", "_", " ", "_", "k">>
  @@ "Power Plants" :> <<"_", " ", "_">>
  @@ "extensions" :> <<"_">>
  @@ "Has any claim been made or loss suffered" :> <<"_", " ", "_", " ", "_", "m", " ", "_", " ", "m", "_", " ", "_", " ", "_", " ", "_">>
  @@ "If YES, please provide details below" :> <<"_", " ", "_", ",", " ", "_", " ", "_", " ", "_", " ", "_">>
  @@ "Are you aware of any of the following?" :> <<"_", " ", "_", " ", "_", " ", "_", " ", "_", " ", "_", " ", "_", " ", "_">>
  @@ "Name of Principal Signing this form" :> <<"_", "m", "_", " ", "_", " ", "_", " ", "_", " ", "_", " ", "_", "m">>
  @@ "DECLARATION" :> <<"_">>
  @@ "3" :> <<"3">>
  @@ "4" :> <<"4">>
  @@ "5" :> <<"5">>
  @@ "7" :> <<"7">>
  @@ "12" :> <<"1", "2">>
  @@ "40" :> <<"4", "0">>
  @@ "100" :> <<"1", "0", "0">>
  @@ " " :> <<" ">>
  @@ "\n" :> <<"\n">>
  @@ ":" :> <<":">>
  @@ "-" :> <<"-">>
  @@ "0" :> <<"0">>
  @@ "1" :> <<"1">>
  @@ "2" :> <<"2">>
  @@ "6" :> <<"6">>
  @@ "8" :> <<"8">>
  @@ "9" :> <<"9">>
  @@ "#" :> <<"#">>
  @@ "," :> <<",">>
  @@ "." :> <<".">>
  @@ "k" :> <<"k">>
  @@ "K" :> <<"K">>
  @@ "m" :> <<"m">>
  @@ "M" :> <<"M">>
  @@ "/" :> <<"/">>
  @@ "_" :> <<"_">>

Chars(tok) == IF tok \in DOMAIN CharsTable THEN CharsTable[tok] ELSE <<"_">>

(* the characters of a string given as tokens *)
CharsOf(s) == Concat([k \in 1..Len(s) |-> Chars(s[k])])

DigitStr == <<"0", "1", "2", "3", "4", "5", "6", "7", "8", "9">>

DigitVal(c) == (CHOOSE n \in 1..10 : DigitStr[n] = c) - 1

RECURSIVE ToInt(_)
ToInt(ds) ==
  IF ds = <<>> THEN 0 ELSE ToInt(SubSeq(ds, 1, Len(ds) - 1)) * 10 + DigitVal(ds[Len(ds)])

RECURSIVE Keep(_, _)
Keep(cs, class) ==
  IF cs = <<>> THEN <<>>
  ELSE (IF Head(cs) \in class THEN <<Head(cs)>> ELSE <<>>) \o Keep(Tail(cs), class)

RECURSIVE Drop(_, _)
Drop(cs, class) ==
  IF cs = <<>> THEN <<>>
  ELSE (IF Head(cs) \in class THEN <<>> ELSE <<Head(cs)>>) \o Drop(Tail(cs), class)

(* the least element of a set of numbers *)
Least(S) == CHOOSE q \in S : \A r \in S : q <= r

(* the greatest element of a set of numbers *)
Greatest(S) == CHOOSE q \in S : \A r \in S : r <= q

RECURSIVE Split(_, _), SplitAt(_, _, _)
SplitAt(cs, seps, hit) ==
  IF hit = {} THEN <<cs>>
  ELSE <<SubSeq(cs, 1, Least(hit) - 1)>> \o Split(SubSeq(cs, Least(hit) + 1, Len(cs)), seps)

Split(cs, seps) == SplitAt(cs, seps, {p \in 1..Len(cs) : cs[p] \in seps})

CharLower(c) == IF c = "K" THEN "k" ELSE IF c = "M" THEN "m" ELSE c

RECURSIVE Pow10(_)
Pow10(n) == IF n = 0 THEN 1 ELSE 10 * Pow10(n - 1)

----------------------------------------------------------------------------
(* Normalisation helpers.  Numbers are kept as decimal numerals, so no      *)
(* input overflows: an int is its digits without leading zeros, a float is  *)
(* [int, frac], its digits before and after the point (1250.0 is            *)
(* [int |-> <<"1","2","5","0">>, frac |-> <<>>]).                           *)

RECURSIVE NoLeadingZeros(_)
NoLeadingZeros(ds) ==
  IF Len(ds) > 1 /\ Head(ds) = "0" THEN NoLeadingZeros(Tail(ds))
  ELSE IF ds = <<>> THEN <<"0">> ELSE ds

RECURSIVE NoTrailingZeros(_)
NoTrailingZeros(ds) ==
  IF ds # <<>> /\ ds[Len(ds)] = "0" THEN NoTrailingZeros(SubSeq(ds, 1, Len(ds) - 1)) ELSE ds

Zeros(n) == [k \in 1..n |-> "0"]

DecimalAt(ds, point) ==
  [int |-> NoLeadingZeros(SubSeq(ds, 1, point)),
   frac |-> NoTrailingZeros(SubSeq(ds, point + 1, Len(ds)))]

(* the numeral digits * 10^shift *)
Decimal(digits, shift) ==
  IF shift >= 0 THEN DecimalAt(digits \o Zeros(shift), Len(digits) + shift)
  ELSE IF Len(digits) + shift >= 0 THEN DecimalAt(digits, Len(digits) + shift)
  ELSE DecimalAt(Zeros(-shift - Len(digits)) \o digits, 0)

EXP_K == 3
EXP_M == 6

HasChar(cs, c) == \E k \in 1..Len(cs) : cs[k] = c

(* The products float(v) * multiplier that binary floating point rounds    *)
(* away from the decimal product, as repr shows them, of every v of at most *)
(* five characters over the digits 0, 1, 2 and the point:                   *)
(* <<digits before the point, digits after it, exponent of the multiplier>> *)
(* (float("2.01") * 1000.0 is 2009.9999999999998).                          *)
Rounded ==
  <<<<"0">>, <<"0", "1", "0", "2">>, EXP_K>> :> [int |-> <<"1", "0">>, frac |-> <<"2", "0", "0", "0", "0", "0", "0", "0", "0", "0", "0", "0", "0", "0", "1">>]
  @@ <<<<"0">>, <<"0", "1", "2", "2">>, EXP_K>> :> [int |-> <<"1", "2">>, frac |-> <<"2", "0", "0", "0", "0", "0", "0", "0", "0", "0", "0", "0", "0", "0", "1">>]
  @@ <<<<"0">>, <<"1", "1", "0", "1">>, EXP_K>> :> [int |-> <<"1", "1", "0">>, frac |-> <<"1", "0", "0", "0", "0", "0", "0", "0", "0", "0", "0", "0", "0", "1">>]
  @@ <<<<"0">>, <<"1", "1", "1", "1">>, EXP_K>> :> [int |-> <<"1", "1", "1">>, frac |-> <<"1", "0", "0", "0", "0", "0", "0", "0", "0", "0", "0", "0", "0", "1">>]
  @@ <<<<"0">>, <<"1", "1", "1", "2">>, EXP_K>> :> [int |-> <<"1", "1", "1">>, frac |-> <<"1", "9", "9", "9", "9", "9", "9", "9", "9", "9", "9", "9", "9", "9">>]
  @@ <<<<"0">>, <<"1", "1", "2", "1">>, EXP_K>> :> [int |-> <<"1", "1", "2">>, frac |-> <<"1", "0", "0", "0", "0", "0", "0", "0", "0", "0", "0", "0", "0", "1">>]
  @@ <<<<"0">>, <<"1", "1", "2", "2">>, EXP_K>> :> [int |-> <<"1", "1", "2">>, frac |-> <<"1", "9", "9", "9", "9", "9", "9", "9", "9", "9", "9", "9", "9", "9">>]
  @@ <<<<"0">>, <<"2", "1", "0", "1">>, EXP_K>> :> [int |-> <<"2", "1", "0">>, frac |-> <<"1", "0", "0", "0", "0", "0", "0", "0", "0", "0", "0", "0", "0", "2">>]
  @@ <<<<"0">>, <<"2", "1", "1", "1">>, EXP_K>> :> [int |-> <<"2", "1", "1">>, frac |-> <<"1", "0", "0", "0", "0", "0", "0", "0", "0", "0", "0", "0", "0", "2">>]
  @@ <<<<"0">>, <<"2", "1", "2", "1">>, EXP_K>> :> [int |-> <<"2", "1", "2">>, frac |-> <<"1", "0", "0", "0", "0", "0", "0", "0", "0", "0", "0", "0", "0", "2">>]
  @@ <<<<"0">>, <<"2", "2", "0", "2">>, EXP_K>> :> [int |-> <<"2", "2", "0">>, frac |-> <<"2", "0", "0", "0", "0", "0", "0", "0", "0", "0", "0", "0", "0", "2">>]
  @@ <<<<"0">>, <<"2", "2", "1", "2">>, EXP_K>> :> [int |-> <<"2", "2", "1">>, frac |-> <<"2", "0", "0", "0", "0", "0", "0", "0", "0", "0", "0", "0", "0", "2">>]
  @@ <<<<"0">>, <<"2", "2", "2", "2">>, EXP_K>> :> [int |-> <<"2", "2", "2">>, frac |-> <<"2", "0", "0", "0", "0", "0", "0", "0", "0", "0", "0", "0", "0", "2">>]
  @@ <<<<"1">>, <<"0", "0", "1">>, EXP_K>> :> [int |-> <<"1", "0", "0", "0">>, frac |-> <<"9", "9", "9", "9", "9", "9", "9", "9", "9", "9", "9", "9", "9">>]
  @@ <<<<"1">>, <<"0", "1", "1">>, EXP_K>> :> [int |-> <<"1", "0", "1", "0">>, frac |-> <<"9", "9", "9", "9", "9", "9", "9", "9", "9", "9", "9", "9", "9">>]
  @@ <<<<"1">>, <<"0", "2", "1">>, EXP_K>> :> [int |-> <<"1", "0", "2", "0">>, frac |-> <<"9", "9", "9", "9", "9", "9", "9", "9", "9", "9", "9", "9", "9">>]
  @@ <<<<"2">>, <<"0", "0", "2">>, EXP_K>> :> [int |-> <<"2", "0", "0", "1">>, frac |-> <<"9", "9", "9", "9", "9", "9", "9", "9", "9", "9", "9", "9", "8">>]
  @@ <<<<"2">>, <<"0", "1">>, EXP_K>> :> [int |-> <<"2", "0", "0", "9">>, frac |-> <<"9", "9", "9", "9", "9", "9", "9", "9", "9", "9", "9", "9", "8">>]
  @@ <<<<"2">>, <<"0", "1", "1">>, EXP_K>> :> [int |-> <<"2", "0", "1", "1">>, frac |-> <<"0", "0", "0", "0", "0", "0", "0", "0", "0", "0", "0", "0", "2">>]
  @@ <<<<"2">>, <<"0", "2", "2">>, EXP_K>> :> [int |-> <<"2", "0", "2", "1">>, frac |-> <<"9", "9", "9", "9", "9", "9", "9", "9", "9", "9", "9", "9", "8">>]
  @@ <<<<"1">>, <<"0", "0", "1">>, EXP_M>> :> [int |-> <<"1", "0", "0", "0", "9", "9", "9">>, frac |-> <<"9", "9", "9", "9", "9", "9", "9", "9", "9", "9">>]
  @@ <<<<"1">>, <<"0", "1", "1">>, EXP_M>> :> [int |-> <<"1", "0", "1", "0", "9", "9", "9">>, frac |-> <<"9", "9", "9", "9", "9", "9", "9", "9", "9", "9">>]
  @@ <<<<"1">>, <<"0", "2", "1">>, EXP_M>> :> [int |-> <<"1", "0", "2", "0", "9", "9", "9">>, frac |-> <<"9", "9", "9", "9", "9", "9", "9", "9", "9", "9">>]
  @@ <<<<"2">>, <<"0", "0", "2">>, EXP_M>> :> [int |-> <<"2", "0", "0", "1", "9", "9", "9">>, frac |-> <<"9", "9", "9", "9", "9", "9", "9", "9", "9", "8">>]
  @@ <<<<"2">>, <<"0", "1">>, EXP_M>> :> [int |-> <<"2", "0", "0", "9", "9", "9", "9">>, frac |-> <<"9", "9", "9", "9", "9", "9", "9", "9", "9", "8">>]
  @@ <<<<"2">>, <<"0", "1", "1">>, EXP_M>> :> [int |-> <<"2", "0", "1", "1", "0", "0", "0">>, frac |-> <<"0", "0", "0", "0", "0", "0", "0", "0", "0", "2">>]
  @@ <<<<"2">>, <<"0", "2", "2">>, EXP_M>> :> [int |-> <<"2", "0", "2", "1", "9", "9", "9">>, frac |-> <<"9", "9", "9", "9", "9", "9", "9", "9", "9", "8">>]

(* x * 10^exponent as the float multiplication gives it: the decimal        *)
(* product except where the table above records the rounding                *)
FloatProduct(x, exponent, exact) ==
  IF <<x.int, x.frac, exponent>> \in DOMAIN Rounded
  THEN Rounded[<<x.int, x.frac, exponent>>]
  ELSE exact

FracLen(parts) == IF Len(parts) = 2 THEN Len(parts[2]) ELSE 0

(* float(v) * multiplier, v the digits and points left of the value *)
FloatTimes(v, parts, exponent) ==
  IF v = <<>> THEN None
  ELSE IF Len(parts) > 2 \/ Keep(v, DigitChars) = <<>> THEN None
  ELSE Some(FloatProduct(Decimal(Keep(v, DigitChars), 0 - FracLen(parts)), exponent,
                         Decimal(Keep(v, DigitChars), exponent - FracLen(parts))))

FloatOf(v, exponent) == FloatTimes(v, Split(v, {"."}), exponent)

(* value.strip().lower().replace(",", "") *)
MoneyText(value) ==
  Drop([k \in 1..Len(strip(value)) |-> CharLower(strip(value)[k])], {","})

MultiplierFirstWins(v) ==
  IF HasChar(v, "k") THEN EXP_K ELSE IF HasChar(v, "m") THEN EXP_M ELSE 0

(* the exponent of the multiplier: "m" is tested after "k" and overwrites it *)
Multiplier(v) ==
  IF HasChar(v, "m") THEN EXP_M ELSE IF HasChar(v, "k") THEN EXP_K ELSE 0

MoneyOf(v) == FloatOf(Keep(v, DigitChars \cup {"."}), Multiplier(v))

parse_money(value) ==
  IF IsNone(value) \/ value[1] = <<>> THEN None
  ELSE MoneyOf(MoneyText(CharsOf(value[1])))

IntOf(digits) == IF digits = <<>> THEN None ELSE Some(NoLeadingZeros(digits))

parse_int(value) ==
  IF IsNone(value) \/ value[1] = <<>> THEN None
  ELSE IntOf(Keep(CharsOf(value[1]), DigitChars))

IsLeap(y) == (y % 4 = 0 /\ y % 100 # 0) \/ y % 400 = 0

DaysIn(m, y) ==
  IF m = 2 THEN (IF IsLeap(y) THEN 29 ELSE 28)
  ELSE IF m \in {4, 6, 9, 11} THEN 30 ELSE 31

AllDigits(cs) == \A k \in 1..Len(cs) : cs[k] \in DigitChars

Pad(n, width) == [k \in 1..width |-> DigitStr[((n \div Pow10(width - k)) % 10) + 1]]

(* date(y, m, d).isoformat(), or None when they are no date *)
IsoFormat(y, m, d) ==
  IF y < 1 \/ m < 1 \/ m > 12 \/ d < 1 \/ d > DaysIn(m, y) THEN None
  ELSE Some(Pad(y, 4) \o <<"-">> \o Pad(m, 2) \o <<"-">> \o Pad(d, 2))

(* %y: 00..68 are 2000..2068, 69..99 are 1969..1999 *)
Century(yy) == IF yy < 69 THEN 2000 + yy ELSE 1900 + yy

(* %Y is four digits, %y two, %m and %d one or two *)
IsoDate(ys, ms, ds, century) ==
  IF ~(AllDigits(ys) /\ AllDigits(ms) /\ AllDigits(ds)) THEN None
  ELSE IF Len(ys) # (IF century THEN 4 ELSE 2) THEN None
  ELSE IF Len(ms) \notin {1, 2} \/ Len(ds) \notin {1, 2} THEN None
  ELSE IsoFormat(IF century THEN ToInt(ys) ELSE Century(ToInt(ys)), ToInt(ms), ToInt(ds))

FieldsDate(f, fmt) ==
  IF Len(f) # 3 THEN None
  ELSE IF fmt.iso THEN IsoDate(f[1], f[2], f[3], TRUE)
  ELSE IsoDate(f[3], f[2], f[1], fmt.century)

(* one strptime format: day, month, year around sep, or year-month-day *)
TryFormat(v, fmt) == FieldsDate(Split(v, {fmt.sep}), fmt)

DateFormats ==
  << [sep |-> "/", century |-> TRUE, iso |-> FALSE],
     [sep |-> "-", century |-> TRUE, iso |-> FALSE],
     [sep |-> ".", century |-> TRUE, iso |-> FALSE],
     [sep |-> "/", century |-> FALSE, iso |-> FALSE],
     [sep |-> "-", century |-> FALSE, iso |-> FALSE],
     [sep |-> ".", century |-> FALSE, iso |-> FALSE],
     [sep |-> "-", century |-> TRUE, iso |-> TRUE] >>

OrElse(a, b) == IF ~IsNone(a) THEN a ELSE b

RECURSIVE FirstFormat(_, _)
FirstFormat(v, fmts) ==
  IF fmts = <<>> THEN None
  ELSE OrElse(TryFormat(v, Head(fmts)), FirstFormat(v, Tail(fmts)))

parse_date(value) ==
  IF IsNone(value) \/ value[1] = <<>> THEN None
  ELSE FirstFormat(strip(CharsOf(value[1])), DateFormats)

----------------------------------------------------------------------------
(* ArchitectsExtractor: label lookup *)

LABELS ==
  [ firm_name |-> << <<"Full trading names of all Firms">>, <<"Name(s)">> >>,
    date_established |-> << <<"Date Established">> >>,
    website |-> << <<"2a) Website">> >>,
    email |-> << <<"2b) Email Address">> >>,
    telephone |-> << <<"2c) Telephone Number">> >>,
    total_staff_block |-> << <<"Total", SP, "Number of Staff">> >>,
    current_pi_block |-> << <<"Current Professional Indemnity Policy">> >>,
    financial_year_end |-> << <<"Financial Year End">> >> ]

(* str.splitlines() *)
SplitLines(s) ==
  IF s = <<>> THEN <<>>
  ELSE IF s[Len(s)] = NL THEN Split(SubSeq(s, 1, Len(s) - 1), {NL})
  ELSE Split(s, {NL})

StripAll(ls) == [k \in 1..Len(ls) |-> strip(ls[k])]

_lines(s) == StripAll(SplitLines(s))

LeastOrZero(hits) == IF hits = {} THEN 0 ELSE Least(hits)

(* index (from 1) of the first line holding a needle, 0 for None *)
_find_line_index(lines, needles) ==
  LeastOrZero({k \in 1..Len(lines) :
                 \E n \in 1..Len(needles) : In(lower(needles[n]), lower(lines[k]))})

(* a lookahead that runs to the end of the lines *)
RECURSIVE LookaheadToTheEnd(_, _, _, _)
LookaheadToTheEnd(lines, idx, j, max_lookahead) ==
  IF idx + j > Len(lines) THEN None
  ELSE IF strip(lines[idx + j]) # <<>> THEN Some(strip(lines[idx + j]))
  ELSE LookaheadToTheEnd(lines, idx, j + 1, max_lookahead)

(* the first non-empty line among the next max_lookahead lines *)
RECURSIVE Lookahead(_, _, _, _)
Lookahead(lines, idx, j, max_lookahead) ==
  IF j > max_lookahead \/ idx + j > Len(lines) THEN None
  ELSE IF strip(lines[idx + j]) # <<>> THEN Some(strip(lines[idx + j]))
  ELSE Lookahead(lines, idx, j + 1, max_lookahead)

(* parts[1].strip() of re.split(r"[:\-]", line, maxsplit=1), <<>> when the  *)
(* line does not split                                                      *)
AfterSeparator(line, seps) ==
  IF seps = {} THEN <<>> ELSE strip(SubSeq(line, Least(seps) + 1, Len(line)))

SameLine(line) == AfterSeparator(line, {p \in 1..Len(line) : line[p] \in {":", "-"}})

AfterLabelAt(lines, idx, max_lookahead) ==
  IF idx = 0 THEN None
  ELSE IF SameLine(lines[idx]) # <<>> THEN Some(SameLine(lines[idx]))
  ELSE Lookahead(lines, idx, 1, max_lookahead)

_extract_after_label(lines, labels, max_lookahead) ==
  AfterLabelAt(lines, _find_line_index(lines, labels), max_lookahead)

----------------------------------------------------------------------------
(* ArchitectsExtractor: block rules *)

RECURSIVE Join(_)
Join(ls) ==
  IF ls = <<>> THEN <<>>
  ELSE IF Len(ls) = 1 THEN ls[1]
  ELSE ls[1] \o <<SP>> \o Join(Tail(ls))

STAFF_WINDOW == 6

StaffKeys ==
  {"staff_principals_raw", "staff_qualified_raw", "staff_unqualified_raw", "staff_others_raw"}

StaffPatterns ==
  [ staff_principals_raw |-> <<L("principals"), WS1, Num("1")>>,
    staff_qualified_raw |-> <<L("qualified staff"), WS1, Num("1")>>,
    staff_unqualified_raw |-> <<L("un"), L("qualified staff"), WS1, Num("1")>>,
    staff_others_raw |-> <<L("others"), WS1, Num("1")>> ]

StaffWindow(lines, idx) ==
  Join(SubSeq(lines, idx, Min(idx + STAFF_WINDOW - 1, Len(lines))))

StaffAt(lines, idx) ==
  IF idx = 0 THEN [k \in StaffKeys |-> None]
  ELSE [k \in StaffKeys |->
          GroupOrNone(Search(StaffPatterns[k], StaffWindow(lines, idx)), "1")]

_extract_staff_block(lines) ==
  StaffAt(lines, _find_line_index(lines, LABELS.total_staff_block))

PiGroup ==
  [ current_pi_insurer_raw |-> "insurer",
    current_pi_broker_raw |-> "broker",
    current_pi_limit_raw |-> "limit",
    current_pi_excess_raw |-> "excess",
    current_pi_premium_raw |-> "premium",
    current_pi_renewal_raw |-> "renewal" ]

PiKeys == DOMAIN PiGroup

PiPattern ==
  << L("current professional indemnity policy"), WS0,
     L("insurer"), WS0, Lazy("insurer"), WS1,
     L("broker"), WS0, Lazy("broker"), WS1,
     L("limit of indemnity"), WS0, Lazy("limit"), WS1,
     L("excess"), WS0, Lazy("excess"), WS1,
     L("premium"), WS0, Lazy("premium"), WS1,
     L("renewal date"), WS0, Greedy("renewal") >>

(* a current-policy rule that fills the cells one pattern at a time *)
_extract_current_pi_block_cellwise(s) ==
  [k \in PiKeys |->
     StrippedGroupOrNone(
        Search(<<L(IF k = "current_pi_limit_raw" THEN "limit of indemnity"
                   ELSE IF k = "current_pi_renewal_raw" THEN "renewal date"
                   ELSE PiGroup[k]), WS0, Lazy("1"), Alt(<<WS1>>, <<Eof>>)>>, s), "1")]

PiFields(m) == [k \in PiKeys |-> StrippedGroupOrNone(m, PiGroup[k])]

_extract_current_pi_block(s) == PiFields(Search(PiPattern, s))

TurnoverGroup ==
  [ turnover_latest_uk_raw |-> "uk_row",
    turnover_latest_usa_canada_raw |-> "usa_row",
    turnover_latest_eu_raw |-> "eu_row",
    turnover_latest_elsewhere_raw |-> "else_row" ]

TurnoverKeys == DOMAIN TurnoverGroup

TurnoverPattern ==
  << L("breakdown of turnover/fees"), Skip,
     L("uk"), WS0, Lazy("uk_row"),
     L("usa/canada"), WS0, Lazy("usa_row"),
     L("eu"), WS0, Lazy("eu_row"),
     L("elsewhere"), WS0, Lazy("else_row"),
     L("total") >>

NumberChars == DigitChars \cup {POUND, ",", ".", "k", "K", "m", "M"}

(* the run of NumberChars of cs that ends at hi *)
RunEndingAt(cs, hi) ==
  SubSeq(cs, Least({p \in 1..hi : \A q \in p..hi : cs[q] \in NumberChars}), hi)

LastRun(cs, ends) == IF ends = {} THEN None ELSE Some(RunEndingAt(cs, Greatest(ends)))

NumberEnds(cs) == LastRun(cs, {p \in 1..Len(cs) : cs[p] \in NumberChars})

(* nums[-1] if nums else None, nums the maximal runs of NumberChars *)
last_number(row) == NumberEnds(CharsOf(row))

TurnoverFields(m) ==
  IF ~m.ok THEN <<>>
  ELSE [k \in TurnoverKeys |-> last_number(m.caps[TurnoverGroup[k]])]

_extract_turnover_latest_year(s) == TurnoverFields(Search(TurnoverPattern, s))

ENDASH == "--"

Pct == <<WS0, Num("1"), WS0, L("%")>>

OtherPrefix == <<L("other"), L(":"), WS0, Opt(<<L("please describe"), L(":")>>), WS0>>

TotalOrEnd == Alt(<<L("total"), L(":")>>, <<Eof>>)

ActivityPatterns ==
  [ activity_architectural_new_build_pct_raw |->
      <<L("architectural work"), WS0, L("-"), WS0, L("new build")>> \o Pct,
    activity_architectural_non_structural_refurb_pct_raw |->
      <<L("architectural work"), WS0, Opt(<<L(ENDASH)>>), WS0,
        L("non"), L("-"), L("structural refurbishment")>> \o Pct,
    activity_building_surveys_non_structural_land_pct_raw |->
      <<L("building surveys non"), L("-"), L("structural"), WS0, L("/"), WS0,
        L("land surveys")>> \o Pct,
    activity_civil_engineering_pct_raw |-> <<L("civil engineering")>> \o Pct,
    activity_structural_surveys_valuations_pct_raw |->
      <<L("structural surveys"), WS0, L("/"), WS0, L("valuations")>> \o Pct,
    activity_project_management_pct_raw |-> <<L("project management")>> \o Pct,
    activity_project_coordination_pct_raw |->
      <<L("project co"), L("-"), L("ordination")>> \o Pct,
    activity_interior_design_pct_raw |-> <<L("interior design")>> \o Pct,
    activity_quantity_surveying_pct_raw |-> <<L("quantity surveying")>> \o Pct,
    activity_other_pct_raw |-> OtherPrefix \o <<Num("1"), WS0, L("%")>> ]

ActivityOtherDescription ==
  OtherPrefix \o <<L("%"), Skip, L("description of other work"), L(":"), WS0,
                   Lazy("1"), TotalOrEnd>>

ActivityKeys == DOMAIN ActivityPatterns \cup {"activity_other_description_raw"}

_extract_activity_split(s) ==
  [k \in ActivityKeys |->
     IF k = "activity_other_description_raw"
     THEN StrippedGroupOrNone(Search(ActivityOtherDescription, s), "1")
     ELSE GroupOrNone(Search(ActivityPatterns[k], s), "1")]

ContractPatterns ==
  [ contract_housing_under_3_floors_pct_raw |->
      <<L("housing"), WS0, L("(under"), WS0, L("3"), WS0, L("floors)")>> \o Pct,
    contract_housing_over_3_floors_pct_raw |->
      <<L("housing"), WS0, L("(over"), WS0, L("3"), WS0, L("floors)")>> \o Pct,
    contract_office_retail_pct_raw |->
      <<L("office"), WS0, L("/"), WS0, L("retail")>> \o Pct,
    contract_schools_hospitals_municipal_pct_raw |->
      <<L("schools"), WS0, L("/"), WS0, L("hospitals"), WS0, L("/"), WS0,
        L("municipal buildings")>> \o Pct,
    contract_roads_highways_pct_raw |->
      <<L("roads"), WS0, L("/"), WS0, L("highways"), WS0, L("/"), WS0,
        L("motorways")>> \o Pct,
    contract_power_plants_pct_raw |-> <<L("power plants")>> \o Pct,
    contract_cladding_glazing_curtain_walling_pct_raw |->
      <<L("cladding"), WS0, L("/"), WS0, L("glazing"), WS0, L("/"), WS0,
        L("curtain walling")>> \o Pct,
    contract_other_pct_raw |-> <<L("other"), L(":")>> \o Pct ]

ContractOtherDescription ==
  <<L("description of other work"), L(":"), WS0, Lazy("1"), TotalOrEnd>>

ContractKeys == DOMAIN ContractPatterns \cup {"contract_other_description_raw"}

_extract_contract_type_split(s) ==
  [k \in ContractKeys |->
     IF k = "contract_other_description_raw"
     THEN StrippedGroupOrNone(Search(ContractOtherDescription, s), "1")
     ELSE GroupOrNone(Search(ContractPatterns[k], s), "1")]

ClaimsPattern ==
  << L("has any claim been made or loss suffered"), Skip,
     L("if yes, please provide details below"), Lazy0("1"),
     Alt(<<L("are you aware of any of the following?")>>, <<Eof>>) >>

CircumstancesPattern ==
  << L("are you aware of any of the following?"), Lazy0("1"),
     Alt(<<L("name of principal signing this form"), L(":")>>,
         <<Alt(<<L("declaration")>>, <<Eof>>)>>) >>

----------------------------------------------------------------------------
(* ArchitectsExtractor.extract *)

LOOKAHEAD_FIRM == 3
LOOKAHEAD_FIELD == 2

LabelKeys == {"firm_name", "date_established", "website", "email", "telephone"}

LookaheadOf(key) == IF key = "firm_name" THEN LOOKAHEAD_FIRM ELSE LOOKAHEAD_FIELD

LabelFields(lines) ==
  [k \in LabelKeys |-> _extract_after_label(lines, LABELS[k], LookaheadOf(k))]

DisclosurePatterns ==
  [claims_block_raw |-> ClaimsPattern, circumstances_block_raw |-> CircumstancesPattern]

DisclosureFields(s) ==
  [k \in DOMAIN DisclosurePatterns |->
     StrippedGroupOrNone(Search(DisclosurePatterns[k], s), "1")]

(* the raw map: raw[...] = ... and raw.update(...), a later entry replacing *)
(* an earlier one of the same key                                           *)
RawOf(s, lines) ==
  DisclosureFields(s) @@ _extract_contract_type_split(s) @@ _extract_activity_split(s)
    @@ _extract_turnover_latest_year(s) @@ _extract_current_pi_block(s)
    @@ _extract_staff_block(lines) @@ LabelFields(lines)

RawFields(s) == RawOf(s, _lines(s))

PctKeys == DOMAIN ActivityPatterns \cup DOMAIN ContractPatterns

(* key.replace("_raw", "") for the percentage keys *)
NormKeyOf ==
  [ activity_architectural_new_build_pct_raw |-> "activity_architectural_new_build_pct",
    activity_architectural_non_structural_refurb_pct_raw |->
      "activity_architectural_non_structural_refurb_pct",
    activity_building_surveys_non_structural_land_pct_raw |->
      "activity_building_surveys_non_structural_land_pct",
    activity_civil_engineering_pct_raw |-> "activity_civil_engineering_pct",
    activity_structural_surveys_valuations_pct_raw |->
      "activity_structural_surveys_valuations_pct",
    activity_project_management_pct_raw |-> "activity_project_management_pct",
    activity_project_coordination_pct_raw |-> "activity_project_coordination_pct",
    activity_interior_design_pct_raw |-> "activity_interior_design_pct",
    activity_quantity_surveying_pct_raw |-> "activity_quantity_surveying_pct",
    activity_other_pct_raw |-> "activity_other_pct",
    contract_housing_under_3_floors_pct_raw |-> "contract_housing_under_3_floors_pct",
    contract_housing_over_3_floors_pct_raw |-> "contract_housing_over_3_floors_pct",
    contract_office_retail_pct_raw |-> "contract_office_retail_pct",
    contract_schools_hospitals_municipal_pct_raw |->
      "contract_schools_hospitals_municipal_pct",
    contract_roads_highways_pct_raw |-> "contract_roads_highways_pct",
    contract_power_plants_pct_raw |-> "contract_power_plants_pct",
    contract_cladding_glazing_curtain_walling_pct_raw |->
      "contract_cladding_glazing_curtain_walling_pct",
    contract_other_pct_raw |-> "contract_other_pct" ]

(* bool(raw.get(key) and raw[key].strip()) *)
Disclosed(r, key) == ~IsNone(Get(r, key)) /\ strip(Get(r, key)[1]) # <<>>

(* the raw key each normalised field is read from, by normaliser *)
PassThrough ==
  [ firm_name |-> "firm_name", website |-> "website", email |-> "email",
    telephone |-> "telephone",
    current_pi_insurer |-> "current_pi_insurer_raw",
    current_pi_broker |-> "current_pi_broker_raw",
    current_pi_limit_raw |-> "current_pi_limit_raw",
    current_pi_excess_raw |-> "current_pi_excess_raw",
    current_pi_premium_raw |-> "current_pi_premium_raw",
    activity_other_description |-> "activity_other_description_raw",
    contract_other_description |-> "contract_other_description_raw" ]

Dates ==
  [ date_established |-> "date_established",
    current_pi_renewal_date |-> "current_pi_renewal_raw" ]

Ints ==
  [ staff_principals |-> "staff_principals_raw",
    staff_qualified |-> "staff_qualified_raw",
    staff_unqualified |-> "staff_unqualified_raw",
    staff_others |-> "staff_others_raw" ]

Moneys ==
  [ current_pi_limit_amount |-> "current_pi_limit_raw",
    current_pi_excess_amount |-> "current_pi_excess_raw",
    current_pi_premium_amount |-> "current_pi_premium_raw",
    turnover_latest_uk |-> "turnover_latest_uk_raw",
    turnover_latest_usa_canada |-> "turnover_latest_usa_canada_raw",
    turnover_latest_eu |-> "turnover_latest_eu_raw",
    turnover_latest_elsewhere |-> "turnover_latest_elsewhere_raw" ]

Flags ==
  [ has_claims_disclosed |-> "claims_block_raw",
    has_circumstances_disclosed |-> "circumstances_block_raw" ]

PctOf == [n \in {NormKeyOf[k] : k \in PctKeys} |-> CHOOSE k \in PctKeys : NormKeyOf[k] = n]

(* the normalised view, each field read from the raw map with raw.get *)
NormalisedView(r) ==
  [k \in DOMAIN PassThrough |-> Get(r, PassThrough[k])]
    @@ [k \in DOMAIN Dates |-> parse_date(Get(r, Dates[k]))]
    @@ [k \in DOMAIN Ints \cup DOMAIN PctOf |-> parse_int(Get(r, (Ints @@ PctOf)[k]))]
    @@ [k \in DOMAIN Moneys |-> parse_money(Get(r, Moneys[k]))]
    @@ [k \in DOMAIN Flags |-> Some(Disclosed(r, Flags[k]))]

FirstLine(lines) == IF lines = <<>> THEN None ELSE Some(lines[1])

(* a normalised view whose firm name is read again from the first line of   *)
(* the text                                                                 *)
extract_rereading(s) ==
  [raw |-> RawFields(s),
   norm |-> [NormalisedView(RawFields(s)) EXCEPT !["firm_name"] = FirstLine(_lines(s))]]

Extracted(r) == [raw |-> r, norm |-> NormalisedView(r)]

extract(s) == Extracted(RawFields(s))

----------------------------------------------------------------------------
(* The registry and choose_best_extractor *)

ARCHITECTS == [template_id |-> "apex_architects_v1", profession |-> "architects", fixed |-> 0]

(* another TemplateExtractor: it scores every text `fixed` and extracts     *)
(* nothing                                                                  *)
Stub(id, score) == [template_id |-> id, profession |-> "unknown", fixed |-> score]

EXTRACTORS == <<ARCHITECTS>>

MatchScoreOf(x, s) == IF x = ARCHITECTS THEN match_score(s) ELSE x.fixed

ExtractOf(x, s) == IF x = ARCHITECTS THEN extract(s) ELSE [raw |-> <<>>, norm |-> <<>>]

BetterOrEqual(score, so_far) == score >= so_far

(* if score > best_score *)
Better(score, so_far) == score > so_far

AtOrBelowThreshold(score) == score <= THRESHOLD

NeverBelowThreshold(score) == FALSE

(* if best_score < 0.5 *)
BelowThreshold(score) == score < THRESHOLD

----------------------------------------------------------------------------
(* The /extract handlers *)

Routes == {"architects_extractor", "extractors_router"}

RejectsOnlyEmpty(rt, ocr_text) == ocr_text = <<>>

(* the 400 test: architects_extractor tests text.strip(), extractors_router *)
(* strips first and tests the result                                        *)
Rejects(rt, ocr_text) ==
  IF rt = "extractors_router"
  THEN LET t == strip(ocr_text) IN t = <<>>
  ELSE strip(ocr_text) = <<>>

(* the text the handler goes on with *)
LocalText(rt, ocr_text) == IF rt = "extractors_router" THEN strip(ocr_text) ELSE ocr_text

(* norm.get("current_pi_insurer") or None; extractors_router answers None *)
InsurerOf(rt, n) ==
  IF rt = "extractors_router" THEN None
  ELSE IF Get(n, "current_pi_insurer") = Some(<<>>) THEN None
  ELSE Get(n, "current_pi_insurer")

Validate ==
  /\ pc = "validate"
  /\ text' = LocalText(route, payload)
  /\ IF Rejects(route, payload)
     THEN status' = 400 /\ pc' = "done"
     ELSE status' = status /\ pc' = "scan"
  /\ UNCHANGED <<registry, route, payload, i, best, best_score, extractor,
                 calls, response, prev, other, call, result>>

(* one turn of the for loop of choose_best_extractor *)
ScoreNext ==
  /\ pc = "scan"
  /\ i <= Len(registry)
  /\ LET score == MatchScoreOf(registry[i], text)
     IN  /\ calls' = Append(calls, <<"match_score", i>>)
         /\ IF Better(score, best_score)
            THEN best' = i /\ best_score' = score
            ELSE best' = best /\ best_score' = best_score
  /\ i' = i + 1
  /\ UNCHANGED <<registry, route, payload, pc, text, extractor, status,
                 response, prev, other, call, result>>

(* the threshold test and the return of choose_best_extractor *)
Threshold ==
  /\ pc = "scan"
  /\ i > Len(registry)
  /\ extractor' = IF BelowThreshold(best_score) THEN 0 ELSE best
  /\ pc' = "chosen"
  /\ UNCHANGED <<registry, route, payload, text, i, best, best_score, calls,
                 status, response, prev, other, call, result>>

NoTemplate ==
  /\ pc = "chosen"
  /\ extractor = 0
  /\ status' = 422
  /\ pc' = "done"
  /\ UNCHANGED <<registry, route, payload, text, i, best, best_score, extractor,
                 calls, response, prev, other, call, result>>

(* the ExtractionResponse built from the extractor and its (raw, norm) *)
Reply(rt, x, r) ==
  [template_id |-> x.template_id,
   profession |-> x.profession,
   insurer |-> InsurerOf(rt, r.norm),
   insurer_confidence |-> 0,
   fields_raw |-> r.raw,
   fields_normalized |-> r.norm]

RunExtract ==
  /\ pc = "chosen"
  /\ extractor # 0
  /\ calls' = Append(calls, <<"extract", extractor>>)
  /\ response' = Some(Reply(route, registry[extractor], ExtractOf(registry[extractor], text)))
  /\ status' = 200
  /\ pc' = "done"
  /\ UNCHANGED <<registry, route, payload, text, i, best, best_score,
                 extractor, prev, other, call, result>>

(* the next request arrives once the reply is out *)
NewCall(texts) ==
  /\ pc = "done"
  /\ prev' = Some([payload |-> payload, status |-> status, response |-> response])
  /\ payload' \in texts
  /\ pc' = "validate"
  /\ text' = <<>>
  /\ i' = 1
  /\ best' = 0
  /\ best_score' = 0
  /\ extractor' = 0
  /\ calls' = <<>>
  /\ status' = 0
  /\ response' = None
  /\ UNCHANGED <<registry, route, other, call, result>>

(* the locals of the request being served *)
Locals ==
  [payload |-> payload, pc |-> pc, text |-> text, i |-> i, best |-> best,
   best_score |-> best_score, extractor |-> extractor, calls |-> calls,
   status |-> status, response |-> response]

(* a scheduler under which best and best_score are not locals of a call:   *)
(* they stay where they are when the other request goes on                 *)
SwitchSharingBest ==
  /\ other # None
  /\ other' = Some(Locals)
  /\ payload' = other[1].payload
  /\ pc' = other[1].pc
  /\ text' = other[1].text
  /\ i' = other[1].i
  /\ extractor' = other[1].extractor
  /\ calls' = other[1].calls
  /\ status' = other[1].status
  /\ response' = other[1].response
  /\ UNCHANGED <<registry, route, best, best_score, prev, call, result>>

(* the other request in flight goes on: every local of a call (the         *)
(* parameters and local variables of the handler, of choose_best_extractor *)
(* and of extract) belongs to its own call; EXTRACTORS is the one object   *)
(* the calls share                                                         *)
Switch ==
  /\ other # None
  /\ other' = Some(Locals)
  /\ payload' = other[1].payload
  /\ pc' = other[1].pc
  /\ text' = other[1].text
  /\ i' = other[1].i
  /\ best' = other[1].best
  /\ best_score' = other[1].best_score
  /\ extractor' = other[1].extractor
  /\ calls' = other[1].calls
  /\ status' = other[1].status
  /\ response' = other[1].response
  /\ UNCHANGED <<registry, route, prev, call, result>>

----------------------------------------------------------------------------
(* The explored inputs *)

SeqsUpTo(S, n) == UNION {[1..k -> S] : k \in 0..n}

Spaces(n) == [k \in 1..n |-> SP]

Blank(n) == [k \in 1..n |-> NL]

PrimT == "Professional Indemnity Insurance Proposal Form for Architects"
PrimU == "PROFESSIONAL INDEMNITY INSURANCE PROPOSAL FORM FOR ARCHITECTS"
AcctT == "Professional Indemnity Insurance Proposal Form for Accountants"
ActT == "Breakdown of your activities and percentage of income generated for each discipline"
ConT == "Breakdown of contract types described below and percentage of income generated"

(* the first lines of a proposal form for architects *)
Title == <<PrimT, NL>>

(* any short text of headings, filler and whitespace *)
AnchorTexts == SeqsUpTo({SP, NL, PrimT, PrimU, AcctT, ActT, ConT, "lorem"}, MaxLen)

(* cells[k] for the k in sel, in order, each followed by sep *)
RECURSIVE Cells(_, _, _, _)
Cells(cells, sel, sep, k) ==
  IF k > Len(cells) THEN <<>>
  ELSE (IF k \in sel THEN cells[k] \o sep ELSE <<>>) \o Cells(cells, sel, sep, k + 1)

StaffCells ==
  << <<"Principals", SP, "3">>, <<"Qualified Staff", SP, "4">>,
     <<"Un", "qualified Staff", SP, "5">>, <<"Others", SP, "7">> >>

(* the staff block: the label, b blank lines, then some of the four counts  *)
(* on one line or on a line each                                            *)
StaffTexts ==
  { Title \o <<"Total", SP, "Number of Staff", NL>> \o Blank(b)
      \o Cells(StaffCells, sel, <<sep>>, 1) :
      b \in 0..(MaxPad + 1), sel \in SUBSET (1..4), sep \in {SP, NL} }

PiCells(g) ==
  << <<"Insurer">> \o Spaces(g) \o <<"Acme">>,
     <<"Broker">> \o Spaces(g) \o <<"Broker", "Co">>,
     <<"Limit of Indemnity">> \o Spaces(g) \o <<"#500,000">>,
     <<"Excess">> \o Spaces(g) \o <<"#5,000">>,
     <<"Premium">> \o Spaces(g) \o <<"#1,200">>,
     <<"Renewal Date">> \o Spaces(g) \o <<"01/06/2025">> >>

(* the current-policy row: with or without its heading, some of its six     *)
(* cells, g spaces between a label and its value, with or without text      *)
(* after the row                                                            *)
PiTexts ==
  { Title \o (IF head THEN <<"Current Professional Indemnity Policy", NL>> ELSE <<>>)
      \o Cells(PiCells(g), sel, <<SP>>, 1) \o tail :
      head \in BOOLEAN, sel \in SUBSET (1..6), g \in 0..MaxPad,
      tail \in {<<>>, <<NL, "lorem">>} }

RowValues == {<<>>, <<"n/a", SP>>, <<"100", SP, "2k", SP>>}

(* the turnover table: each row empty, not a number, or two year columns *)
TurnoverTexts ==
  { Title \o <<"Breakdown of turnover/fees", NL>>
      \o <<"UK", SP>> \o uk \o <<"USA/Canada", SP>> \o usa
      \o <<"EU", SP>> \o eu \o <<"Elsewhere", SP>> \o el
      \o (IF total THEN <<"Total">> ELSE <<>>) :
      uk \in RowValues, usa \in RowValues, eu \in RowValues, el \in RowValues,
      total \in BOOLEAN }

ActivityRows(g) ==
  << <<"Architectural Work", SP, "-", SP, "New Build">> \o Spaces(g) \o <<"40", "%">>,
     <<"Civil Engineering">> \o Spaces(g) \o <<"5", SP, "%">>,
     <<"Other", ":", SP, "Please describe", ":">> \o Spaces(g) \o <<"12", "%">> >>

ContractRows(g) ==
  << <<"Power Plants">> \o Spaces(g) \o <<"40", "%">>,
     <<"Other", ":">> \o Spaces(g) \o <<"5", SP, "%">>,
     <<"Other", ":", SP, "%", NL, "Description of other work", ":", SP, "extensions",
       NL, "Total", ":", SP, "100", "%">> >>

(* the two percentage tables: each with or without its heading and with    *)
(* some of its rows                                                         *)
SplitTexts ==
  { Title \o (IF ah THEN <<ActT, NL>> ELSE <<>>) \o Cells(ActivityRows(g), as, <<NL>>, 1)
      \o (IF ch THEN <<ConT, NL>> ELSE <<>>) \o Cells(ContractRows(g), cs, <<NL>>, 1) :
      ah \in BOOLEAN, as \in SUBSET (1..3), ch \in BOOLEAN, cs \in SUBSET (1..3),
      g \in 0..MaxPad }

LabelValues == {<<"Acme">>, <<"01/06/2025">>, <<"31/02/2025">>, <<"2025", "-", "06", "-", "01">>}

(* a labelled field: the value after a colon on the label's line, or b      *)
(* blank lines below it                                                     *)
LabelTexts ==
  { Title \o label \o (IF colon THEN <<":", SP>> ELSE <<NL>> \o Blank(b)) \o value :
      label \in {<<"Full trading names of all Firms">>, <<"Name(s)">>, <<"Date Established">>},
      colon \in BOOLEAN, b \in 0..(MaxPad + 2), value \in LabelValues }

DisclosureTexts ==
  { Title \o <<"Has any claim been made or loss suffered", SP,
               "If YES, please provide details below">> \o claims
      \o <<"Are you aware of any of the following?">> \o circumstances \o <<"DECLARATION">> :
      claims \in {<<NL>>, <<NL, "lorem", NL>>},
      circumstances \in {<<SP>>, <<SP, "lorem", SP>>} }

Texts ==
  AnchorTexts \cup StaffTexts \cup PiTexts \cup TurnoverTexts \cup SplitTexts
    \cup LabelTexts \cup DisclosureTexts

(* registries of up to MaxReg extractors *)
ExtractorPool ==
  {ARCHITECTS, Stub("a0", 0), Stub("a4", 4), Stub("a5", 5), Stub("a7", 7),
   Stub("b5", 5), Stub("b7", 7)}

Registries == SeqsUpTo(ExtractorPool, MaxReg)

SelectionTexts ==
  { <<>>, <<SP>>, <<NL, SP>>, <<"lorem">>, <<SP, "lorem", NL>>, <<PrimT>>, <<PrimU, NL>>,
    <<ActT, NL, ConT>>, <<PrimT, NL, ActT, NL, ConT>>, <<AcctT>> }

(* texts of which several give one raw map *)
RepeatTexts ==
  { <<PrimT>>, <<PrimU>>, <<PrimT, NL, "lorem">>, <<"lorem", NL, PrimT>>, <<SP>>, <<"lorem">>,
    <<PrimT, NL, "Name(s)", ":", SP, "Acme">>, <<PrimU, NL, "Name(s)", ":", "Acme", NL>>,
    <<PrimT, NL, "Name(s)", NL, "Acme">>, <<"Name(s)", "-", "Acme", NL, PrimT>>,
    <<PrimT, NL, "Other", ":", "5", "%">>, <<PrimT, NL, "Other", ":", SP, "5", SP, "%">>,
    <<PrimT, NL, "Date Established", ":", SP, "01/06/2025">>,
    <<PrimT, NL, ActT, NL, "Date Established", NL, "01/06/2025">> }

----------------------------------------------------------------------------
(* Direct calls of the functions of the module *)

(* no request is being served *)
Idle ==
  /\ registry = EXTRACTORS
  /\ route = "architects_extractor"
  /\ payload = <<>>
  /\ text = <<>>
  /\ i = 1
  /\ best = 0
  /\ best_score = 0
  /\ extractor = 0
  /\ calls = <<>>
  /\ status = 0
  /\ response = None
  /\ prev = None
  /\ other = None

(* cls._extract_after_label(lines, labels, max_lookahead) returns *)
AfterLabel ==
  /\ pc = "call"
  /\ call[1].fn = "_extract_after_label"
  /\ result' = _extract_after_label(call[1].lines, call[1].labels, call[1].max_lookahead)
  /\ pc' = "returned"
  /\ UNCHANGED <<registry, route, payload, text, i, best, best_score, extractor,
                 calls, status, response, prev, other, call>>

(* parse_money(value) returns *)
ParseMoney ==
  /\ pc = "call"
  /\ call[1].fn = "parse_money"
  /\ result' = parse_money(call[1].value)
  /\ pc' = "returned"
  /\ UNCHANGED <<registry, route, payload, text, i, best, best_score, extractor,
                 calls, status, response, prev, other, call>>

MaxLines == 4
MaxLookahead == 3
MaxChars == 5

(* lines of a form: blank, a label alone, a label and its value after a    *)
(* colon, a label with nothing after the colon, a hyphen before the label, *)
(* a value, a second label with a hyphen and a colon after it              *)
LineForms ==
  { <<>>, <<SP>>, <<"Name(s)">>, <<SP, "Name(s)", ":", SP, "Acme", SP>>,
    <<"Name(s)", ":", SP>>, <<"Acme", "-", "Name(s)">>, <<SP, "lorem", SP>>,
    <<"Date Established", "-", "01/06/2025", ":", "lorem">> }

LabelSets ==
  { <<>>, << <<"name(s)">> >>, << <<"Date Established">>, <<"Name(s)">> >> }

LabelCalls ==
  { Some([fn |-> "_extract_after_label", lines |-> ls, labels |-> lb, max_lookahead |-> k]) :
      ls \in SeqsUpTo(LineForms, MaxLines), lb \in LabelSets, k \in 0..MaxLookahead }

----------------------------------------------------------------------------
(* Specifications *)

Start(texts, registries) ==
  /\ registry \in registries
  /\ route \in Routes
  /\ payload \in texts
  /\ pc = "validate"
  /\ text = <<>>
  /\ i = 1
  /\ best = 0
  /\ best_score = 0
  /\ extractor = 0
  /\ calls = <<>>
  /\ status = 0
  /\ response = None
  /\ prev = None
  /\ other = None
  /\ call = None
  /\ result = None

Next == Validate \/ ScoreNext \/ Threshold \/ NoTemplate \/ RunExtract

(* one request on the text of a form, under the registry of the code *)
Init == Start(Texts, {EXTRACTORS})

Spec == Init /\ [][Next]_vars

(* one request under any registry *)
InitSel == Start(SelectionTexts, Registries)

SpecSel == InitSel /\ [][Next]_vars

(* requests one after the other *)
InitSeq == Start(RepeatTexts, {EXTRACTORS})

NextSeq == Next \/ NewCall(RepeatTexts)

SpecSeq == InitSeq /\ [][NextSeq]_vars

(* texts of concurrent requests: blank, without anchor, with the anchors *)
ConcTexts ==
  { <<SP>>, <<"lorem">>, <<PrimT>>, <<PrimU, NL, ActT>>,
    <<PrimT, NL, "Name(s)", ":", SP, "Acme">>,
    <<PrimT, NL, "Other", ":", SP, "5", SP, "%">> }

(* the locals of a request that has not begun *)
Fresh(ocr_text) ==
  [payload |-> ocr_text, pc |-> "validate", text |-> <<>>, i |-> 1, best |-> 0,
   best_score |-> 0, extractor |-> 0, calls |-> <<>>, status |-> 0,
   response |-> None]

(* two requests in flight, their steps interleaved in any order *)
InitConc ==
  /\ registry = EXTRACTORS
  /\ route \in Routes
  /\ \E a \in ConcTexts, b \in ConcTexts :
        /\ payload = a
        /\ other = Some(Fresh(b))
  /\ pc = "validate"
  /\ text = <<>>
  /\ i = 1
  /\ best = 0
  /\ best_score = 0
  /\ extractor = 0
  /\ calls = <<>>
  /\ status = 0
  /\ response = None
  /\ prev = None
  /\ call = None
  /\ result = None

NextConc == Next \/ Switch

SpecConc == InitConc /\ [][NextConc]_vars

(* the characters of money values: the currency symbol, digits, the      *)
(* thousands separator, the point, the suffixes in both cases, a space   *)
MoneyChars == {POUND, "0", "1", "2", ",", ".", "k", "m", "M", SP}

(* the money values of the examples of the form *)
MoneyExamples ==
  { <<POUND, "1", ",", "2", "5", "0">>, <<"2", "k">>, <<"1", ".", "5", "m">> }

MoneyCalls ==
  { Some([fn |-> "parse_money", value |-> v]) :
      v \in {None} \cup {Some(cs) : cs \in SeqsUpTo(MoneyChars, MaxChars) \cup MoneyExamples} }

(* one call of parse_money on None or on any string of the characters *)
InitMoney == Idle /\ pc = "call" /\ call \in MoneyCalls /\ result = None

NextMoney == ParseMoney

SpecMoney == InitMoney /\ [][NextMoney]_vars

(* one call of _extract_after_label on any lines, labels and lookahead *)
InitLabel == Idle /\ pc = "call" /\ call \in LabelCalls /\ result = None

NextLabel == AfterLabel

SpecLabel == InitLabel /\ [][NextLabel]_vars

----------------------------------------------------------------------------
(* Properties *)

(* choose_best_extractor has returned in the request being served *)
Scanned == pc \in {"chosen", "done"} /\ status # 400

(* the score of the k-th registered extractor on the handler's text *)
ScoreAt(k) == MatchScoreOf(registry[k], text)

GreatestScore == Greatest({ScoreAt(k) : k \in 1..Len(registry)})

BlankText(s) == \A k \in 1..Len(s) : s[k] \in {" ", "\n"}

ExtractCalled == \E c \in 1..Len(calls) : calls[c][1] = "extract"

Replied == pc = "done" /\ status = 200

(* the spellings of the three anchor phrases *)
PrimarySpellings == {PRIMARY, PrimT, PrimU}
ActivitiesSpellings == {ACTIVITIES, ActT}
ContractsSpellings == {CONTRACTS, ConT}

Has(spellings, s) == \E k \in 1..Len(s) : s[k] \in spellings

WeightSum(s) ==
  (IF Has(PrimarySpellings, s) THEN 7 ELSE 0)
    + (IF Has(ActivitiesSpellings, s) THEN 2 ELSE 0)
    + (IF Has(ContractsSpellings, s) THEN 1 ELSE 0)

(* C1: when the greatest score of the registered extractors is below 0.5    *)
(* (or there is no extractor) choose_best_extractor returns None; when it   *)
(* is 0.5 or more it returns an extractor that holds the greatest score.    *)
C1_ThresholdSelects ==
  Scanned =>
    IF registry = <<>> \/ GreatestScore < 5 THEN extractor = 0
    ELSE extractor \in 1..Len(registry) /\ ScoreAt(extractor) = GreatestScore

(* a best score of exactly 0.5 among two extractors is selected *)
C1_Witness ==
  /\ Replied
  /\ Len(registry) = 2
  /\ GreatestScore = 5
  /\ extractor # 0

(* C2: the loop keeps the extractor with the strictly greatest score seen   *)
(* so far, and of the extractors that share the greatest score the one      *)
(* registered earliest is returned.                                         *)
C2_EarliestOfTheGreatest ==
  /\ (pc = "scan" /\ best # 0) =>
       \A k \in 1..(i - 1) :
          ScoreAt(k) < ScoreAt(best) \/ (ScoreAt(k) = ScoreAt(best) /\ best <= k)
  /\ (Scanned /\ extractor # 0) =>
       \A k \in 1..Len(registry) :
          ScoreAt(k) < ScoreAt(extractor)
            \/ (ScoreAt(k) = ScoreAt(extractor) /\ extractor <= k)

(* two different extractors tie at or above the threshold, the first is     *)
(* returned and extracts                                                    *)
C2_Witness ==
  /\ Replied
  /\ Len(registry) = 2
  /\ registry[1] # registry[2]
  /\ ScoreAt(1) = ScoreAt(2)
  /\ ScoreAt(1) >= 5
  /\ extractor = 1

(* C3: while a request whose text is empty or only whitespace is served, no *)
(* match_score and no extract has been invoked, the handler never reaches   *)
(* the selection, and the request ends with status 400 and no response.     *)
C3_RejectedBeforeAnyCall ==
  BlankText(payload) =>
    /\ calls = <<>>
    /\ pc \in {"validate", "done"}
    /\ response = None
    /\ (pc = "done" => status = 400)

(* a whitespace-only text has been rejected under a registry with extractors *)
C3_Witness ==
  /\ BlankText(payload)
  /\ payload # <<>>
  /\ registry # <<>>
  /\ pc = "done"
  /\ status = 400

(* C4: when the text is not blank and every registered extractor scores     *)
(* below 0.5, no extract is invoked, no response (so no raw and no          *)
(* normalized map) is built, and the request ends with status 422, which is *)
(* not the 400 of a blank text.                                             *)
C4_NoTemplateIsA422 ==
  (~BlankText(payload) /\ pc # "validate" /\ \A k \in 1..Len(registry) : ScoreAt(k) < 5) =>
    /\ ~ExtractCalled
    /\ response = None
    /\ status # 400
    /\ (pc = "done" => status = 422)

(* two extractors were scored, one of them 0.4, and the request ended 422 *)
C4_Witness ==
  /\ pc = "done"
  /\ status = 422
  /\ Len(calls) = 2
  /\ \E k \in 1..Len(registry) : ScoreAt(k) = 4

C6_PrimaryAloneSelects ==
  Scanned =>
    /\ ( /\ Has(PrimarySpellings, text)
         /\ ~Has(ActivitiesSpellings, text)
         /\ ~Has(ContractsSpellings, text) ) =>
         /\ best_score >= 5
         /\ extractor # 0
         /\ registry[extractor].template_id = "apex_architects_v1"
         /\ (pc = "done" => status = 200)
    /\ ( /\ ~Has(PrimarySpellings, text)
         /\ ~Has(ActivitiesSpellings, text)
         /\ ~Has(ContractsSpellings, text) ) =>
         /\ best_score = 0
         /\ extractor = 0
         /\ (pc = "done" => status = 422 /\ response = None)

(* a text with only the primary anchor, in capitals, got the architects     *)
(* template                                                                 *)
C6_Witness ==
  /\ Replied
  /\ Has({PrimU}, payload)
  /\ ~Has(ActivitiesSpellings, payload)
  /\ ~Has(ContractsSpellings, payload)
  /\ response[1].template_id = "apex_architects_v1"

(* the previous request was answered with a result *)
PrevReplied == prev # None /\ prev[1].status = 200

(* C7: two requests whose texts give the same raw map get the same          *)
(* normalized map.                                                          *)
C7_NormFromRawAlone ==
  (Replied /\ PrevReplied) =>
    (response[1].fields_raw = prev[1].response[1].fields_raw
       => response[1].fields_normalized = prev[1].response[1].fields_normalized)

(* two different texts, with different first lines, gave one raw map that   *)
(* holds a firm name                                                        *)
C7_Witness ==
  /\ Replied
  /\ PrevReplied
  /\ payload[1] # prev[1].payload[1]
  /\ response[1].fields_raw = prev[1].response[1].fields_raw
  /\ response[1].fields_raw["firm_name"] # None

(* the heading and the row labels that only the activity-split table has *)
ActivityLabels ==
  { ACTIVITIES, "architectural work", "new build", "non", "structural refurbishment",
    "building surveys non", "structural", "land surveys", "civil engineering",
    "structural surveys", "valuations", "project management", "project co",
    "ordination", "interior design", "quantity surveying", "please describe" }

HasActivityTable(s) == \E k \in 1..Len(s) : Lower(s[k]) \in ActivityLabels

(* C8: a text without the activity-split table is answered with a result in *)
(* which every activity_* field of the raw and of the normalized map has no *)
(* value.                                                                   *)
C8_NoActivityTableNoActivityFields ==
  (pc = "done" /\ ~BlankText(payload) /\ ~HasActivityTable(payload)
     /\ Has(PrimarySpellings, payload)) =>
    /\ status = 200
    /\ \A k \in ActivityKeys : Get(response[1].fields_raw, k) = None
    /\ \A k \in DOMAIN ActivityPatterns :
          Get(response[1].fields_normalized, NormKeyOf[k]) = None
    /\ Get(response[1].fields_normalized, "activity_other_description") = None

(* a text without the activity-split table whose contract-table row         *)
(* "Other: 5 %" was read as the activity table's "Other" percentage         *)
C8_Witness ==
  /\ Replied
  /\ ~HasActivityTable(payload)
  /\ response[1].fields_raw["activity_other_pct_raw"] = Some(<<"5">>)
  /\ response[1].fields_normalized["activity_other_pct"] = Some(<<"5">>)

AllOrNothing(raw, keys) ==
  (\A k \in keys : Get(raw, k) # None) \/ (\A k \in keys : Get(raw, k) = None)

(* C9, as stated: each of the current-policy row, the staff block and the   *)
(* turnover table sets all of its raw fields or none of them.               *)
C9_EveryBlockAllOrNothing ==
  Replied =>
    /\ AllOrNothing(response[1].fields_raw, PiKeys)
    /\ AllOrNothing(response[1].fields_raw, StaffKeys)
    /\ AllOrNothing(response[1].fields_raw, TurnoverKeys)

(* C9, amended: the current-policy row sets all six of its raw fields or    *)
(* none of them.  (Each staff count has a pattern of its own, and a         *)
(* turnover row without a number leaves its own figure without a value.)    *)
C9_PolicyRowAllOrNothing == Replied => AllOrNothing(response[1].fields_raw, PiKeys)

(* the current-policy row matched: its six fields have values *)
C9_Witness ==
  /\ Replied
  /\ \A k \in PiKeys : response[1].fields_raw[k] # None

RawKeys ==
  LabelKeys \cup StaffKeys \cup PiKeys \cup TurnoverKeys \cup ActivityKeys
    \cup ContractKeys \cup DOMAIN DisclosurePatterns

(* C10: the raw map of every result has the same keys, every field of every *)
(* rule, the turnover_latest_* ones included when the table does not match. *)
C10_SameRawKeys == Replied => DOMAIN response[1].fields_raw = RawKeys

(* a result whose raw map has no turnover_latest_* key *)
C10_Witness ==
  /\ Replied
  /\ TurnoverKeys \cap DOMAIN response[1].fields_raw = {}
  /\ \A k \in DOMAIN Moneys :
        response[1].fields_normalized[k] = None

(* the policy row of the form: six labelled cells, a space between them *)
PolicyRow ==
  << "Insurer", SP, "Acme", SP, "Broker", SP, "Broker", "Co", SP,
     "Limit of Indemnity", SP, "#500,000", SP, "Excess", SP, "#5,000", SP,
     "Premium", SP, "#1,200", SP, "Renewal Date", SP, "01/06/2025" >>

PolicyHeading == "Current Professional Indemnity Policy"

(* C11: a text with the primary anchor phrase and the policy row, whatever  *)
(* is before or after the row, is answered with current_pi_insurer "Acme",  *)
(* current_pi_limit_amount 500000.0 and current_pi_renewal_date             *)
(* "2025-06-01".                                                            *)
C11_PolicyRowEndToEnd ==
  (pc = "done" /\ Has(PrimarySpellings, payload) /\ In(PolicyRow, payload)) =>
    /\ status = 200
    /\ response[1].fields_normalized["current_pi_insurer"] = Some(<<"Acme">>)
    /\ response[1].fields_normalized["current_pi_limit_amount"]
         = Some([int |-> <<"5", "0", "0", "0", "0", "0">>, frac |-> <<>>])
    /\ response[1].fields_normalized["current_pi_renewal_date"]
         = Some(<<"2", "0", "2", "5", "-", "0", "6", "-", "0", "1">>)

(* the anchor and the row without the heading "Current Professional         *)
(* Indemnity Policy" before it: no field of the row has a value             *)
C11_Witness ==
  /\ Replied
  /\ In(PolicyRow, payload)
  /\ ~Has({PolicyHeading}, payload)
  /\ \A k \in PiKeys : response[1].fields_raw[k] = None
  /\ response[1].fields_normalized["current_pi_insurer"] = None
  /\ response[1].fields_normalized["current_pi_limit_amount"] = None
  /\ response[1].fields_normalized["current_pi_renewal_date"] = None

(* the lines that hold a candidate label, in any letter case *)
Anchors(lines, labels) ==
  {n \in 1..Len(lines) :
     \E c \in 1..Len(labels) : In(lower(labels[c]), lower(lines[n]))}

(* the positions of ":" and "-" in a line *)
Separators(line) == {p \in 1..Len(line) : line[p] \in {":", "-"}}

(* what is left of a line after its first ":" or "-", trimmed *)
Remainder(line) ==
  strip(SubSeq(line, Least(Separators(line)) + 1, Len(line)))

(* the lines below line n, at most k of them and none past the end, that   *)
(* are not empty when trimmed                                               *)
Below(lines, n, k) ==
  {q \in (n + 1)..Min(n + k, Len(lines)) : strip(lines[q]) # <<>>}

(* the value the label lookup is to return *)
Expected(lines, labels, k) ==
  IF Anchors(lines, labels) = {} THEN None
  ELSE LET n == Least(Anchors(lines, labels))
       IN  IF Separators(lines[n]) # {} /\ Remainder(lines[n]) # <<>>
           THEN Some(Remainder(lines[n]))
           ELSE IF Below(lines, n, k) = {} THEN None
           ELSE Some(strip(lines[Least(Below(lines, n, k))]))

(* C12: _extract_after_label anchors on the first line that holds a label   *)
(* in any letter case and returns the trimmed rest of that line after its   *)
(* first ":" or "-" when that is not empty, else the first non-empty        *)
(* trimmed line of the next k lines that exist, else None; a label line,    *)
(* two blank lines and a value give the value with k = 3 and None with      *)
(* k = 1.                                                                   *)
C12_AfterLabel ==
  pc = "returned" =>
    /\ result = Expected(call[1].lines, call[1].labels, call[1].max_lookahead)
    /\ (call[1].lines = <<<<"Name(s)">>, <<>>, <<SP>>, <<SP, "lorem", SP>>>>
          /\ call[1].labels # <<>>) =>
         /\ call[1].max_lookahead = 3 => result = Some(<<"lorem">>)
         /\ call[1].max_lookahead = 1 => result = None

(* a label line in another letter case than the label, two blank lines and  *)
(* a value, looked up with k = 1: no value                                  *)
C12_Witness ==
  /\ pc = "returned"
  /\ call[1].lines = <<<<"Name(s)">>, <<>>, <<SP>>, <<SP, "lorem", SP>>>>
  /\ call[1].labels = << <<"name(s)">> >>
  /\ call[1].max_lookahead = 1
  /\ result = None

(* the status and the response of a request served alone *)
Alone(rt, ocr_text) ==
  IF Rejects(rt, ocr_text) THEN <<400, None>>
  ELSE IF match_score(LocalText(rt, ocr_text)) < 5 THEN <<422, None>>
  ELSE <<200, Some(Reply(rt, ARCHITECTS, extract(LocalText(rt, ocr_text))))>>

(* C13: however the steps of two requests on their texts interleave, each   *)
(* request ends with the status and the response it has when served alone,  *)
(* and the registry is the list of extractors of the module in every state. *)
C13_NoCrossCallState ==
  /\ registry = EXTRACTORS
  /\ pc = "done" => <<status, response>> = Alone(route, payload)
  /\ (other # None /\ other[1].pc = "done") =>
       <<other[1].status, other[1].response>> = Alone(route, other[1].payload)

(* a request was answered with a result while a request on another text,   *)
(* one that matches no template, was between its scoring and its threshold *)
(* test                                                                    *)
C13_Witness ==
  /\ Replied
  /\ other # None
  /\ other[1].payload # payload
  /\ other[1].pc = "scan"
  /\ other[1].i = 2
  /\ other[1].best = 0

(* the characters of the argument of the call of parse_money *)
MoneyArg == IF IsNone(call[1].value) THEN <<>> ELSE CharsOf(call[1].value[1])

Suffixes == {"k", "K", "m", "M"}

HasSuffix(cs) == cs # <<>> /\ cs[Len(cs)] \in Suffixes

(* the exponent of the multiplier that a final 'k' or 'm' stands for *)
SuffixExp(cs) ==
  IF ~HasSuffix(cs) THEN 0 ELSE IF cs[Len(cs)] \in {"k", "K"} THEN 3 ELSE 6

(* a money string without its currency symbol and its suffix *)
NumberPart(cs) ==
  SubSeq(cs, (IF cs # <<>> /\ cs[1] = POUND THEN 2 ELSE 1),
             (IF HasSuffix(cs) THEN Len(cs) - 1 ELSE Len(cs)))

PointAt(b) == {p \in 1..Len(b) : b[p] = "."}

(* digits with thousands separators and an optional decimal part *)
IsNumber(b) ==
  /\ b # <<>>
  /\ b[1] \in DigitChars
  /\ Cardinality(PointAt(b)) <= 1
  /\ \A p \in 1..Len(b) : b[p] \in DigitChars \cup {",", "."}
  /\ \A p \in 1..Len(b) : \A q \in PointAt(b) : p > q => b[p] \in DigitChars

IntDigits(b) ==
  Keep(SubSeq(b, 1, (IF PointAt(b) = {} THEN Len(b) ELSE Least(PointAt(b)) - 1)), DigitChars)

FracDigits(b) ==
  IF PointAt(b) = {} THEN <<>> ELSE Keep(SubSeq(b, Least(PointAt(b)) + 1, Len(b)), DigitChars)

(* the number ip.fp with its point moved e places to the right *)
ShiftPoint(ip, fp, e) ==
  [int |-> NoLeadingZeros(ip \o SubSeq(fp \o Zeros(e), 1, e)),
   frac |-> NoTrailingZeros(SubSeq(fp \o Zeros(e), e + 1, Len(fp) + e))]

(* the number of b times 10^e *)
ExactTimes(b, e) == ShiftPoint(IntDigits(b), FracDigits(b), e)

(* the float of the number of b times the float 10^e *)
FloatOfTimes(b, e) == FloatProduct(ExactTimes(b, 0), e, ExactTimes(b, e))

IsNumeral(x) ==
  /\ DOMAIN x = {"int", "frac"}
  /\ x.int # <<>>
  /\ \A k \in 1..Len(x.int) : x.int[k] \in DigitChars
  /\ \A k \in 1..Len(x.frac) : x.frac[k] \in DigitChars

(* parse_money returns None or a number on every argument *)
MoneyTotal == pc = "returned" => (result = None \/ (Len(result) = 1 /\ IsNumeral(result[1])))

(* a missing or empty argument, or one without a digit, gives None *)
MoneyNoValue ==
  (pc = "returned" /\ Keep(MoneyArg, DigitChars) = <<>>) => result = None

BothSuffixes(cs) ==
  /\ \E p \in 1..Len(cs) : cs[p] \in {"k", "K"}
  /\ \E p \in 1..Len(cs) : cs[p] \in {"m", "M"}

(* b: the digits and points of the argument *)
MillionsOf(b) ==
  (Cardinality(PointAt(b)) <= 1 /\ Keep(b, DigitChars) # <<>>) =>
    result = Some(FloatOfTimes(b, 6))

(* with both a 'k' and an 'm' the multiplier is that of the 'm' *)
MoneyLastMultiplier ==
  (pc = "returned" /\ BothSuffixes(MoneyArg)) =>
    MillionsOf(Keep(MoneyArg, DigitChars \cup {"."}))

(* the argument is well formed: symbol, number, suffix *)
WellFormedMoney == IsNumber(NumberPart(MoneyArg))

(* C14, as stated: parse_money is total; on an optional currency symbol,    *)
(* digits with thousands separators and an optional decimal part, and an    *)
(* optional 'k' or 'm', it returns the number times 1, 1,000 or 1,000,000;  *)
(* without an argument or without a digit it returns None; with both 'k'    *)
(* and 'm' the multiplier is the one applied last.                          *)
C14_ExactProduct ==
  /\ MoneyTotal
  /\ (pc = "returned" /\ WellFormedMoney) =>
       result = Some(ExactTimes(NumberPart(MoneyArg), SuffixExp(MoneyArg)))
  /\ MoneyNoValue
  /\ MoneyLastMultiplier

(* C14, amended: the same, the value returned being the floating-point      *)
(* product of the number and 1.0, 1,000.0 or 1,000,000.0, which is the      *)
(* decimal product only where binary floating point does not round it       *)
(* ("2.01k" gives 2009.9999999999998).                                      *)
C14_FloatProduct ==
  /\ MoneyTotal
  /\ (pc = "returned" /\ WellFormedMoney) =>
       result = Some(FloatOfTimes(NumberPart(MoneyArg), SuffixExp(MoneyArg)))
  /\ MoneyNoValue
  /\ MoneyLastMultiplier

(* parse_money has returned on a well-formed string with a suffix whose     *)
(* product is rounded                                                       *)
C14_Witness ==
  /\ pc = "returned"
  /\ call # None
  /\ call[1].fn = "parse_money"
  /\ WellFormedMoney
  /\ HasSuffix(MoneyArg)
  /\ result # None
  /\ result # Some(ExactTimes(NumberPart(MoneyArg), SuffixExp(MoneyArg)))

====
